---- MODULE Spec2Model ----
(***************************************************************************)
(* md2note: the pipeline orchestrator (src/src/app.py), the file mover     *)
(* (src/src/file_mover.py) and the two exporters                           *)
(* (src/src/apple_notes_exporter.py, src/src/google_docs_exporter.py).     *)
(*                                                                         *)
(* Spec        MD2Note.run() driving process_file over the scanner's paths *)
(* SpecExport  the exporters' export() as pure functions of their inputs   *)
(* SpecGDocs   a GoogleDocsExporter instance under validate/export calls   *)
(* SpecScript  the AppleScript command built for a note                    *)
(* SpecTitle   get_title and _remove_title_header over a markdown body     *)
(* SpecExtract a MarkdownMetadataExtractor instance under repeated calls   *)
(* SpecMover   FileMover.move_file over a file system                      *)
(* SpecRuns    successive runs of the pipeline over one source directory   *)
(***************************************************************************)
EXTENDS Integers, Sequences, FiniteSets, TLC

\* ------------------------------------------------------------------ bounds

\* Number of markdown paths under the source root.
MaxFiles == 3

Paths == 1..MaxFiles

\* Number of front-matter entries of a markdown file.
MaxFrontMatter == 1

\* Number of documents created in Google Docs.
MaxDocs == 2

\* Number of calls made on one GoogleDocsExporter.
MaxSession == 2

\* ------------------------------------------------------------- run() state

VARIABLES
    pc,          \* position of run(): app.py:102-140
    files,       \* markdown_files, the scanner's result (app.py:116)
    idx,         \* number of iterations of the for loop completed (app.py:129)
    successful,  \* app.py:126
    failed,      \* app.py:127
    results,     \* the value process_file returned in each iteration
    calls,       \* every collaborator call made so far, in order, with its outcome
    atSource,    \* paths that hold a file under the source root
    atClean      \* paths that hold a file under the clean root (mirrored)

runVars == <<pc, files, idx, successful, failed, results, calls, atSource, atClean>>

\* ---------------------------------------------- AppleNotesExporter state

VARIABLES
    anArgs,      \* the arguments of the call and what osascript does
    an           \* the call made on the AppleNotesExporter and how it ended

appleVars == <<anArgs, an>>

\* ---------------------------------------------- GoogleDocsExporter state

VARIABLES
    gd,          \* the exporter's fields (google_docs_exporter.py:36-40)
    drive,       \* Google Drive: the folders of the target name, the documents
    gl,          \* the last call made on the GoogleDocsExporter and how it ended
    gh           \* the drive at the start and every call made on the exporter

gdocsVars == <<gd, drive, gl, gh>>

exporterVars == <<appleVars, gdocsVars>>

\* ------------------------------------------------- text functions' state

VARIABLES
    txIn,        \* the arguments of a call of a text function
    txOut,       \* the function called and what it returned
    rendered     \* what _format_metadata returned, per exporter

textVars == <<txIn, txOut, rendered>>

\* --------------------------------------- MarkdownMetadataExtractor state

VARIABLES
    mdFile,      \* the markdown file on disk and what frontmatter.load does with it
    mx,          \* the extractor's fields (metadata.py:10-16)
    mxLog        \* every call made on the extractor so far, with its result

extractorVars == <<mdFile, mx, mxLog>>

pureVars == <<textVars, extractorVars>>

\* ------------------------------------------------------ file system state

VARIABLES
    fs,          \* the files and the directories under the source root
    mvLast,      \* the last call of FileMover.move_file and how it ended
    rr           \* the runs of the pipeline made over the source directory: the
                 \* files still to process, how often each document was
                 \* exported, the documents archived (move_file returned True)
                 \* and the ones exported again after that

archiveVars == <<fs, mvLast, rr>>

vars == <<runVars, exporterVars, pureVars, archiveVars>>

\* ---------------------------------------------------------- collaborators

\* What a call to a collaborator can do: return (a value) or raise.
\* validate_configuration returns a boolean: both exporters catch every
\* exception in it (apple_notes_exporter.py:34-39,
\* google_docs_exporter.py:49-71).
ValidateOutcomes == {"true", "false"}
MkdirOutcomes == {"ok", "raise"}
\* MarkdownMetadataExtractor: the constructor raises ValueError for a path
\* that is no regular file (metadata.py:14-15); get_content, extract and
\* get_title read the file and can raise (decode error, stat error).
ExtractOutcomes == {"ok", "ctor_raise", "content_raise", "extract_raise", "title_raise"}
ExportOutcomes == {"true", "false", "raise"}
\* file_mover.move_file: "moved" the move succeeds; "vanished" the source file
\* is gone when move_file looks (file_mover.py:49); "error" shutil.move raises
\* inside move_file (file_mover.py:65); "raise" an injected mover raises.
MoveOutcomes == {"moved", "vanished", "error", "raise"}

Call(op, f, out) == [op |-> op, f |-> f, out |-> out]

\* What scan_for_markdown can return: any set of the paths, each once, in
\* the file system's order, which need not be sorted (ascending or
\* descending here).
RECURSIVE Ascending(_)
Ascending(S) ==
    IF S = {} THEN <<>>
    ELSE LET m == CHOOSE x \in S : \A y \in S : x <= y
         IN  <<m>> \o Ascending(S \ {m})

Reversed(s) == [i \in DOMAIN s |-> s[Len(s) + 1 - i]]

ScanResults ==
    {Ascending(S) : S \in SUBSET Paths} \cup {Reversed(Ascending(S)) : S \in SUBSET Paths}

\* ------------------------------------------------- FileMover.move_file

\* file_mover.py:37-67. shutilOk: whether mkdir and shutil.move go through.
\* Returns the boolean and the two directory trees afterwards.
move_file(src, cln, f, shutilOk) ==
    IF f \notin src
    THEN [ret |-> FALSE, src |-> src, cln |-> cln]
    ELSE IF ~shutilOk
    THEN [ret |-> FALSE, src |-> src, cln |-> cln]
    ELSE [ret |-> TRUE, src |-> src \ {f}, cln |-> cln \cup {f}]

\* ------------------------------------------------ MD2Note.process_file

\* app.py:87-90: the extractor is constructed, then get_content, extract and
\* get_title are called in that order; the first one that raises ends them.
Extraction(f, ext) ==
    LET ctor == Call("ctor", f, IF ext = "ctor_raise" THEN "raise" ELSE "ok")
        cont == Call("get_content", f, IF ext = "content_raise" THEN "raise" ELSE "ok")
        extr == Call("extract", f, IF ext = "extract_raise" THEN "raise" ELSE "ok")
        titl == Call("get_title", f, IF ext = "title_raise" THEN "raise" ELSE "ok")
    IN  CASE ext = "ctor_raise" -> [exc |-> TRUE, calls |-> <<ctor>>]
          [] ext = "content_raise" -> [exc |-> TRUE, calls |-> <<ctor, cont>>]
          [] ext = "extract_raise" -> [exc |-> TRUE, calls |-> <<ctor, cont, extr>>]
          [] ext = "title_raise" -> [exc |-> TRUE, calls |-> <<ctor, cont, extr, titl>>]
          [] OTHER -> [exc |-> FALSE, calls |-> <<ctor, cont, extr, titl>>]

\* Mutant of ExportSucceeded: the result of export() is not tested.
ExportSucceededAlways(exp) == TRUE

\* app.py:91: the truth value of exporter.export(...) decides the branch.
ExportSucceeded(exp) == exp = "true"

\* app.py:92-94: move_file is called and its return value is dropped;
\* process_file returns True unless move_file raised.
Archive(f, src, cln, mv) ==
    LET gone == IF mv = "vanished" THEN src \ {f} ELSE src
        m == move_file(gone, cln, f, mv = "moved")
    IN  IF mv = "raise"
        THEN [outcome |-> "exception", calls |-> <<Call("move_file", f, "raise")>>,
              src |-> src, cln |-> cln]
        ELSE [outcome |-> "true",
              calls |-> <<Call("move_file", f, IF m.ret THEN "true" ELSE "false")>>,
              src |-> m.src, cln |-> m.cln]

\* app.py:86-97: the body of the try block.
TryBody(f, src, cln, ext, exp, mv) ==
    LET e == Extraction(f, ext)
        x == Call("export", f, exp)
    IN  IF e.exc
        THEN [outcome |-> "exception", calls |-> e.calls, src |-> src, cln |-> cln]
        ELSE IF exp = "raise"
        THEN [outcome |-> "exception", calls |-> e.calls \o <<x>>, src |-> src, cln |-> cln]
        ELSE IF ExportSucceeded(exp)
        THEN LET a == Archive(f, src, cln, mv)
             IN  [outcome |-> a.outcome, calls |-> e.calls \o <<x>> \o a.calls,
                  src |-> a.src, cln |-> a.cln]
        ELSE [outcome |-> "false", calls |-> e.calls \o <<x>>, src |-> src, cln |-> cln]

\* Mutant of ExceptHandler: no except clause, the exception leaves process_file.
ExceptHandlerMissing(outcome) == IF outcome = "exception" THEN "raise" ELSE outcome

\* app.py:98-100: except Exception: log and return False.
ExceptHandler(outcome) == IF outcome = "exception" THEN "false" ELSE outcome

\* app.py:84-100. ret is "true", "false" or "raise" (an exception leaves it).
process_file(f, src, cln, ext, exp, mv) ==
    LET b == TryBody(f, src, cln, ext, exp, mv)
    IN  [ret |-> ExceptHandler(b.outcome), calls |-> b.calls, src |-> b.src, cln |-> b.cln]

\* ---------------------------------------------------------- MD2Note.run

RunInit ==
    /\ pc = "start"
    /\ files = <<>>
    /\ idx = 0
    /\ successful = 0
    /\ failed = 0
    /\ results = <<>>
    /\ calls = <<>>
    /\ atSource = Paths
    /\ atClean = {}

\* Mutant of Reraise: only the configuration error is re-raised, any other
\* exception is logged and swallowed.
ReraiseConfigOnly(e) == IF e = "RuntimeError" THEN "raised_config" ELSE "done"

\* app.py:138-140: except Exception: log and re-raise. run() leaves with the
\* RuntimeError of line 110 ("raised_config") or with the collaborator's
\* exception ("raised").
Reraise(e) == IF e = "RuntimeError" THEN "raised_config" ELSE "raised"

\* Mutant of AfterValidate: a false result is logged but does not raise.
AfterValidateNoRaise(v) == "mkdir"

\* app.py:108-110: a false result raises RuntimeError.
AfterValidate(v) == IF v = "true" THEN "mkdir" ELSE Reraise("RuntimeError")

\* Mutant of AfterScan: an empty result is treated as an error.
AfterScanEmptyRaises(s) == IF Len(s) = 0 THEN "raised" ELSE "loop"

\* app.py:117-123: an empty result returns at once.
AfterScan(s) == IF Len(s) = 0 THEN "returned_empty" ELSE "loop"

\* Mutant of Tally: a failed file is not counted.
TallySuccessOnly(ret, s, f) == IF ret = "true" THEN <<s + 1, f>> ELSE <<s, f>>

\* app.py:130-133: the counters <<successful, failed>> after one file.
Tally(ret, s, f) == IF ret = "true" THEN <<s + 1, f>> ELSE <<s, f + 1>>

\* Mutant of LoopAfter: the loop breaks at the first failed file.
LoopAfterBreak(ret) == IF ret = "true" THEN "loop" ELSE "done"

\* app.py:129: the for loop goes on to the next path whatever process_file
\* returned.
LoopAfter(ret) == "loop"

\* app.py:108-110.
Validate ==
    /\ pc = "start"
    /\ \E v \in ValidateOutcomes :
        /\ calls' = Append(calls, Call("validate_configuration", 0, v))
        /\ pc' = AfterValidate(v)
    /\ UNCHANGED <<files, idx, successful, failed, results, atSource, atClean>>
    /\ UNCHANGED <<exporterVars, pureVars, archiveVars>>

\* app.py:113, 138-140.
MkCleanDir ==
    /\ pc = "mkdir"
    /\ \E m \in MkdirOutcomes :
        /\ calls' = Append(calls, Call("mkdir", 0, m))
        /\ pc' = IF m = "ok" THEN "scan" ELSE Reraise("Exception")
    /\ UNCHANGED <<files, idx, successful, failed, results, atSource, atClean>>
    /\ UNCHANGED <<exporterVars, pureVars, archiveVars>>

\* app.py:116-127, 138-140.
Scan ==
    /\ pc = "scan"
    /\ \/ /\ calls' = Append(calls, Call("scan_for_markdown", 0, "raise"))
          /\ pc' = Reraise("Exception")
          /\ UNCHANGED files
       \/ \E s \in ScanResults :
          /\ calls' = Append(calls, Call("scan_for_markdown", 0, "ok"))
          /\ files' = s
          /\ pc' = AfterScan(s)
    /\ UNCHANGED <<idx, successful, failed, results, atSource, atClean>>
    /\ UNCHANGED <<exporterVars, pureVars, archiveVars>>

\* app.py:129-133: one iteration of the for loop.
ProcessNext ==
    /\ pc = "loop"
    /\ idx < Len(files)
    /\ \E ext \in ExtractOutcomes, exp \in ExportOutcomes, mv \in MoveOutcomes :
        LET r == process_file(files[idx + 1], atSource, atClean, ext, exp, mv)
        IN  /\ calls' = calls \o r.calls
            /\ atSource' = r.src
            /\ atClean' = r.cln
            /\ IF r.ret = "raise"
               THEN /\ pc' = Reraise("Exception")
                    /\ UNCHANGED <<idx, successful, failed, results>>
               ELSE /\ pc' = LoopAfter(r.ret)
                    /\ idx' = idx + 1
                    /\ results' = Append(results, r.ret = "true")
                    /\ successful' = Tally(r.ret, successful, failed)[1]
                    /\ failed' = Tally(r.ret, successful, failed)[2]
    /\ UNCHANGED files
    /\ UNCHANGED <<exporterVars, pureVars, archiveVars>>

\* app.py:136: the loop is over, the summary is logged and run() returns.
Summary ==
    /\ pc = "loop"
    /\ idx = Len(files)
    /\ pc' = "done"
    /\ UNCHANGED <<files, idx, successful, failed, results, calls, atSource, atClean>>
    /\ UNCHANGED <<exporterVars, pureVars, archiveVars>>

RunNext == Validate \/ MkCleanDir \/ Scan \/ ProcessNext \/ Summary

\* ============================================================ exporters
\* Python values, as far as the exporters tell them apart.

NoneV == [t |-> "none"]
StrV(s) == [t |-> "str", s |-> s]
IntV(n) == [t |-> "int", n |-> n]
ListV == [t |-> "list"]

\* A dict is a sequence of entries in insertion order; YAML keys need not be
\* strings (keyIsStr).
Entry(k, v) == [key |-> k, keyIsStr |-> TRUE, val |-> v]
IntKeyEntry(k, v) == [key |-> k, keyIsStr |-> FALSE, val |-> v]
Dict(items) == [t |-> "dict", items |-> items]

\* Python's truth value of an object (if x: / if not x:).
Truthy(v) ==
    CASE v.t = "none" -> FALSE
      [] v.t = "str" -> v.s # ""
      [] v.t = "int" -> v.n # 0
      [] v.t = "dict" -> Len(v.items) > 0
      [] OTHER -> TRUE

\* "k" in metadata
HasKey(md, k) == \E i \in DOMAIN md.items : md.items[i].keyIsStr /\ md.items[i].key = k

\* metadata[k], for a key that is in it
Get(md, k) ==
    md.items[CHOOSE i \in DOMAIN md.items : md.items[i].keyIsStr /\ md.items[i].key = k].val

\* dict.update: an entry with a key already there replaces its value in
\* place, a new key is appended (metadata.py:30).
RECURSIVE DictUpdate(_, _)
DictUpdate(items, upd) ==
    IF upd = <<>> THEN items
    ELSE LET e == Head(upd)
             same(x) == x.keyIsStr = e.keyIsStr /\ x.key = e.key
             hit == \E i \in DOMAIN items : same(items[i])
             put == IF hit
                    THEN [i \in DOMAIN items |-> IF same(items[i]) THEN e ELSE items[i]]
                    ELSE Append(items, e)
         IN  DictUpdate(put, Tail(upd))

IsoTime == "2024-01-15T10:30:00"

\* metadata.py:44-52: a file of 500 bytes.
FileProperties ==
    << Entry("filename", StrV("a.md")),
       Entry("filepath", StrV("/src/a.md")),
       Entry("modified_time", StrV(IsoTime)),
       Entry("created_time", StrV(IsoTime)),
       Entry("size", IntV(500)) >>

\* Mutant of extract: the file properties replace the front matter's values.
extractPropertiesWin(fm) == Dict(DictUpdate(fm, FileProperties))

\* metadata.py:18-32: the file properties overlaid with the front matter.
extract(fm) == Dict(IF fm # <<>> THEN DictUpdate(FileProperties, fm) ELSE FileProperties)

\* Entries a YAML front matter can hold.
FrontMatterEntries ==
    { Entry("title", StrV("T")),
      Entry("tags", ListV),
      Entry("custom_field", StrV("v")),
      IntKeyEntry("2024", StrV("x")),
      Entry("size", StrV("big")),
      Entry("size", IntV(1536)),
      Entry("size", ListV),
      Entry("size", NoneV),
      Entry("modified_time", StrV("yesterday")),
      Entry("modified_time", IntV(5)),
      Entry("modified_time", ListV) }

RECURSIVE SeqsUpTo(_, _)
SeqsUpTo(S, n) ==
    IF n = 0 THEN {<<>>}
    ELSE {<<>>} \cup {<<x>> \o s : x \in S, s \in SeqsUpTo(S, n - 1)}

\* The front matter of a file: a mapping has each key once.
FrontMatters ==
    {fm \in SeqsUpTo(FrontMatterEntries, MaxFrontMatter) :
        \A i, j \in DOMAIN fm :
            (fm[i].key = fm[j].key /\ fm[i].keyIsStr = fm[j].keyIsStr) => i = j}

\* The metadata argument of export(): absent, empty, or what extract() gives.
Metadatas == {NoneV, Dict(<<>>)} \cup {extract(fm) : fm \in FrontMatters}

Titles == {NoneV, StrV(""), StrV("T")}
Contents == {NoneV, StrV(""), StrV("# T\nbody")}

\* ================================================================ strings
\* A str whose characters matter is a sequence of one-character strings.

\* Length of a title, of a note's HTML and of a folder name.
MaxText == 2

\* Length of a markdown body.
MaxBody == 6

QUOTE == "\""
NL == "\n"
BSL == "\\"

\* Characters of the texts handed to the AppleScript command.
ScriptChars == {"a", QUOTE, NL, BSL}

\* Characters of a markdown body.
BodyChars == {"#", " ", NL, "a"}

\* str.isspace(), for the characters above.
IsSpace(c) == c \in {" ", NL}

RECURSIVE lstrip(_)
lstrip(s) == IF s # <<>> /\ IsSpace(Head(s)) THEN lstrip(Tail(s)) ELSE s

RECURSIVE rstrip(_)
rstrip(s) ==
    IF s # <<>> /\ IsSpace(s[Len(s)]) THEN rstrip(SubSeq(s, 1, Len(s) - 1)) ELSE s

\* str.strip()
strip(s) == rstrip(lstrip(s))

\* str.split(sep) for a one-character sep: the pieces between the separators,
\* one piece for a text without any.
RECURSIVE split(_, _)
split(s, sep) ==
    IF \A i \in DOMAIN s : s[i] # sep THEN <<s>>
    ELSE LET i == CHOOSE k \in DOMAIN s : s[k] = sep /\ \A j \in 1..(k - 1) : s[j] # sep
         IN  <<SubSeq(s, 1, i - 1)>> \o split(SubSeq(s, i + 1, Len(s)), sep)

\* sep.join(parts)
RECURSIVE join(_, _)
join(sep, parts) ==
    IF parts = <<>> THEN <<>>
    ELSE IF Len(parts) = 1 THEN parts[1]
    ELSE parts[1] \o sep \o join(sep, Tail(parts))

\* str.startswith(prefix)
startswith(s, prefix) == Len(s) >= Len(prefix) /\ SubSeq(s, 1, Len(prefix)) = prefix

\* str.replace(old, new) for a one-character old.
RECURSIVE replace(_, _, _)
replace(text, old, new) ==
    IF text = <<>> THEN <<>>
    ELSE (IF Head(text) = old THEN new ELSE <<Head(text)>>) \o replace(Tail(text), old, new)

\* ------------------------------------------------ metadata block, labels
\* A label is a sequence of characters.

Lower26 ==
    << "a", "b", "c", "d", "e", "f", "g", "h", "i", "j", "k", "l", "m",
       "n", "o", "p", "q", "r", "s", "t", "u", "v", "w", "x", "y", "z" >>

Upper26 ==
    << "A", "B", "C", "D", "E", "F", "G", "H", "I", "J", "K", "L", "M",
       "N", "O", "P", "Q", "R", "S", "T", "U", "V", "W", "X", "Y", "Z" >>

IsLetter(c) == \E i \in DOMAIN Lower26 : c = Lower26[i] \/ c = Upper26[i]

LetterIndex(c) == CHOOSE i \in DOMAIN Lower26 : c = Lower26[i] \/ c = Upper26[i]

\* str.upper() and str.lower() of one character
upper(c) == IF IsLetter(c) THEN Upper26[LetterIndex(c)] ELSE c

lower(c) == IF IsLetter(c) THEN Lower26[LetterIndex(c)] ELSE c

\* str.title(): a letter that follows no letter is put in upper case, every
\* other letter in lower case.
str_title(s) ==
    [i \in DOMAIN s |-> IF i = 1 \/ ~IsLetter(s[i - 1]) THEN upper(s[i]) ELSE lower(s[i])]

\* The characters of the keys of the metadata.
KeyChars ==
    [filename |-> <<"f", "i", "l", "e", "n", "a", "m", "e">>,
     filepath |-> <<"f", "i", "l", "e", "p", "a", "t", "h">>,
     modified_time |-> <<"m", "o", "d", "i", "f", "i", "e", "d", "_", "t", "i", "m", "e">>,
     created_time |-> <<"c", "r", "e", "a", "t", "e", "d", "_", "t", "i", "m", "e">>,
     size |-> <<"s", "i", "z", "e">>,
     title |-> <<"t", "i", "t", "l", "e">>,
     tags |-> <<"t", "a", "g", "s">>,
     custom_field |-> <<"c", "u", "s", "t", "o", "m", "_", "f", "i", "e", "l", "d">>]

\* key.replace('_', ' ').title()
\* (apple_notes_exporter.py:206, google_docs_exporter.py:270)
key_label(key) == str_title(replace(KeyChars[key], "_", <<" ">>))

\* The labels of the fields the block formats one by one.
LabelFilename == <<"F", "i", "l", "e", "n", "a", "m", "e">>
LabelFilePath == <<"F", "i", "l", "e", " ", "P", "a", "t", "h">>
LabelModified == <<"M", "o", "d", "i", "f", "i", "e", "d">>
LabelSize == <<"S", "i", "z", "e">>

\* ------------------------------------------------ metadata block, size

\* Mutant of KiloTenths: the tenths are cut off, not rounded.
KiloTenthsTruncated(n) == (10 * n) \div 1024

\* f"{n / 1024:.1f}" in tenths: n/1024 is exact in binary floating point,
\* so the rounding is to nearest, ties to even.
KiloTenths(n) ==
    LET q == (10 * n) \div 1024
        r == (10 * n) % 1024
    IN  IF r > 512 THEN q + 1 ELSE IF r < 512 THEN q ELSE q + (q % 2)

\* apple_notes_exporter.py:195-199, google_docs_exporter.py:259-263, for a
\* size the division accepts.
SizeStr(n) ==
    IF n < 1024 THEN [unit |-> "bytes", n |-> n] ELSE [unit |-> "KB", tenths |-> KiloTenths(n)]

\* metadata['size'] / 1024 raises TypeError unless the value is a number.
Divisible(v) == v.t = "int"

\* datetime.fromisoformat(v): TypeError unless v is a str, ValueError unless
\* it is an ISO date-time.
IsIso(v) == v.t = "str" /\ v.s = IsoTime

handled_fields == {"filename", "filepath", "modified_time", "created_time", "size"}

\* Mutant of OtherKeys: the handled keys are not left out.
OtherKeysAll(md) == md.items

\* The loop over the remaining keys: key.replace(...) raises AttributeError
\* for a key that is no str
\* (apple_notes_exporter.py:204-206, google_docs_exporter.py:268-270).
OtherKeys(md) ==
    SelectSeq(md.items, LAMBDA e : ~(e.keyIsStr /\ e.key \in handled_fields))

OtherKeysRaise(md) == \E i \in DOMAIN md.items : ~md.items[i].keyIsStr

\* ------------------------------------------------- AppleNotesExporter

\* apple_notes_exporter.py:163-208. exc: the call raised. lines: the block's
\* lines as <<label, value>>.
an_format_metadata(md) ==
    IF ~Truthy(md) THEN [exc |-> FALSE, lines |-> <<>>]
    ELSE
    LET l1 == IF HasKey(md, "filename") THEN <<[label |-> LabelFilename, val |-> Get(md, "filename")]>> ELSE <<>>
        l2 == IF HasKey(md, "filepath") THEN <<[label |-> LabelFilePath, val |-> Get(md, "filepath")]>> ELSE <<>>
        \* lines 185-192: the bare except falls back to the raw value
        l3 == IF HasKey(md, "modified_time")
              THEN <<[label |-> LabelModified,
                      val |-> IF IsIso(Get(md, "modified_time"))
                              THEN StrV("January 15, 2024 at 10:30 AM")
                              ELSE Get(md, "modified_time")]>>
              ELSE <<>>
        sizeExc == HasKey(md, "size") /\ ~Divisible(Get(md, "size"))
        l4 == IF HasKey(md, "size") /\ ~sizeExc
              THEN <<[label |-> LabelSize, val |-> SizeStr(Get(md, "size").n)]>>
              ELSE <<>>
        rest == OtherKeys(md)
        l5 == [i \in DOMAIN rest |-> [label |-> key_label(rest[i].key), val |-> rest[i].val]]
    IN  IF sizeExc THEN [exc |-> TRUE, lines |-> l1 \o l2 \o l3]
        ELSE IF OtherKeysRaise(md) THEN [exc |-> TRUE, lines |-> l1 \o l2 \o l3 \o l4]
        ELSE [exc |-> FALSE, lines |-> l1 \o l2 \o l3 \o l4 \o l5]

\* apple_notes_exporter.py:236-250: text.replace raises AttributeError for
\* a text that is no str.
an_escape_raises(text) == text.t # "str"

\* What osascript does with a script.
ScriptOutcomes == {"ok", "nonzero", "popen_raise"}

\* apple_notes_exporter.py:210-234: every failure is caught and is False.
an_run_script(env) == env = "ok"

\* apple_notes_exporter.py:22-39: the script asks System Events whether a
\* process named Notes exists; its answer is written to the standard output,
\* which _run_script does not read, and osascript ends with 0 either way.
an_validate_configuration(env) == IF an_run_script(env) THEN "true" ELSE "false"

\* apple_notes_exporter.py:41-101, as far as it decides how the call ends:
\* lines 55-81 run outside any try block, so an exception there leaves
\* export(); _remove_title_header and _convert_markdown_to_html accept NoneV
\* and str (lines 137, 113).
an_export(title, content, metadata, env) ==
    IF Truthy(metadata) /\ an_format_metadata(metadata).exc THEN "raise"
    ELSE IF an_escape_raises(title) THEN "raise"
    ELSE IF an_run_script(env) THEN "true" ELSE "false"

\* ------------------------------------------------- GoogleDocsExporter

\* google_docs_exporter.py:233-272: as an_format_metadata, but the modified
\* time is not reformatted and the labels carry no emphasis.
gd_format_metadata(md) ==
    IF ~Truthy(md) THEN [exc |-> FALSE, lines |-> <<>>]
    ELSE
    LET l1 == IF HasKey(md, "filename") THEN <<[label |-> LabelFilename, val |-> Get(md, "filename")]>> ELSE <<>>
        l2 == IF HasKey(md, "filepath") THEN <<[label |-> LabelFilePath, val |-> Get(md, "filepath")]>> ELSE <<>>
        l3 == IF HasKey(md, "modified_time")
              THEN <<[label |-> LabelModified, val |-> Get(md, "modified_time")]>>
              ELSE <<>>
        sizeExc == HasKey(md, "size") /\ ~Divisible(Get(md, "size"))
        l4 == IF HasKey(md, "size") /\ ~sizeExc
              THEN <<[label |-> LabelSize, val |-> SizeStr(Get(md, "size").n)]>>
              ELSE <<>>
        rest == OtherKeys(md)
        l5 == [i \in DOMAIN rest |-> [label |-> key_label(rest[i].key), val |-> rest[i].val]]
    IN  IF sizeExc THEN [exc |-> TRUE, lines |-> l1 \o l2 \o l3]
        ELSE IF OtherKeysRaise(md) THEN [exc |-> TRUE, lines |-> l1 \o l2 \o l3 \o l4]
        ELSE [exc |-> FALSE, lines |-> l1 \o l2 \o l3 \o l4 \o l5]

\* What the OAuth flow and the two build() calls do: "fail" raises before
\* line 148, "fail_build_docs" at line 149, "fail_build_drive" at line 150.
AuthOutcomes == {"ok", "fail", "fail_build_docs", "fail_build_drive"}
ApiOutcomes == {"ok", "raise"}
CreateOutcomes == {"ok", "http_error", "raise"}

\* google_docs_exporter.py:120-155.
_authenticate(g, a) ==
    CASE a = "ok" ->
            [ret |-> TRUE,
             gd |-> [g EXCEPT !.credentials = TRUE, !.docs_service = TRUE, !.drive_service = TRUE]]
      [] a = "fail_build_docs" ->
            [ret |-> FALSE, gd |-> [g EXCEPT !.credentials = TRUE]]
      [] a = "fail_build_drive" ->
            [ret |-> FALSE, gd |-> [g EXCEPT !.credentials = TRUE, !.docs_service = TRUE]]
      [] OTHER -> [ret |-> FALSE, gd |-> g]

NewId(ids) == IF ids = {} THEN 1 ELSE (CHOOSE m \in ids : \A x \in ids : x <= m) + 1

\* Mutant of _find_or_create_folder: the listing is not consulted, a folder
\* is created by every call.
_find_or_create_folderAlwaysCreates(d, list, create) ==
    IF create = "raise" THEN [id |-> 0, drive |-> d, caught |-> TRUE]
    ELSE [id |-> NewId(d.folders), drive |-> [d EXCEPT !.folders = @ \cup {NewId(d.folders)}],
          caught |-> FALSE]

\* google_docs_exporter.py:274-303. The id 0 stands for None. list and
\* create are the outcomes of the two Drive calls; caught: the except branch
\* (lines 301-303) was taken. The drive's folders are the ones of the name
\* asked for, the first of the listing is the one of the least id.
_find_or_create_folder(d, list, create) ==
    IF list = "raise" THEN [id |-> 0, drive |-> d, caught |-> TRUE]
    ELSE IF d.folders # {}
    THEN [id |-> CHOOSE m \in d.folders : \A x \in d.folders : m <= x, drive |-> d,
          caught |-> FALSE]
    ELSE IF create = "raise" THEN [id |-> 0, drive |-> d, caught |-> TRUE]
    ELSE [id |-> NewId(d.folders), drive |-> [d EXCEPT !.folders = {NewId(d.folders)}],
          caught |-> FALSE]

\* google_docs_exporter.py:42-71. env: whether credentials.json exists and
\* what the calls to Google do.
\* authed: _authenticate was executed (line 57); looked: so was
\* _find_or_create_folder (line 62).
gd_validate_configuration(g, d, env) ==
    IF ~env.creds_file
    THEN [ret |-> FALSE, gd |-> g, drive |-> d, authed |-> FALSE, looked |-> FALSE]
    ELSE LET a == _authenticate(g, env.auth)
         IN  IF ~a.ret
             THEN [ret |-> FALSE, gd |-> a.gd, drive |-> d, authed |-> TRUE, looked |-> FALSE]
             ELSE IF Truthy(g.gdocs_folder)
             THEN LET f == _find_or_create_folder(d, env.list, env.create_folder)
                      g2 == [a.gd EXCEPT !.folder_id = f.id]
                  IN  IF f.id = 0
                      THEN [ret |-> FALSE, gd |-> g2, drive |-> f.drive, authed |-> TRUE,
                            looked |-> TRUE]
                      ELSE [ret |-> TRUE, gd |-> g2, drive |-> f.drive, authed |-> TRUE,
                            looked |-> TRUE]
             ELSE [ret |-> TRUE, gd |-> a.gd, drive |-> d, authed |-> TRUE, looked |-> FALSE]

\* google_docs_exporter.py:206-231, as far as the text is empty or not.
_convert_markdown_to_text(content) == IF Truthy(content) THEN <<"BODY">> ELSE <<>>

\* The effect of one insertText request at index 1 on a document's text.
InsertAt1(text, t) == t \o text

RECURSIVE ApplyRequests(_, _)
ApplyRequests(text, requests) ==
    IF requests = <<>> THEN text
    ELSE ApplyRequests(InsertAt1(text, Head(requests)), Tail(requests))

\* google_docs_exporter.py:157-204. The document's text is a sequence of
\* pieces: "BODY" the plain-text body, "META" the metadata block, "NLNL" the
\* two newlines appended to the block.
_insert_content(docs, document_id, content, metadata, batch) ==
    LET fm == gd_format_metadata(metadata)
        r1 == IF Truthy(metadata) THEN <<(<<"META", "NLNL">>)>> ELSE <<>>
        requests == Append(r1, _convert_markdown_to_text(content))
    IN  IF Truthy(metadata) /\ fm.exc THEN [ret |-> FALSE, docs |-> docs]
        ELSE IF batch = "raise" THEN [ret |-> FALSE, docs |-> docs]
        ELSE [ret |-> TRUE,
              docs |-> [docs EXCEPT ![document_id].text = ApplyRequests(@, requests)]]

\* google_docs_exporter.py:305-333. The parent 0 is the Drive root.
_move_to_folder(docs, file_id, folder_id, move) ==
    IF move = "raise" THEN [ret |-> FALSE, docs |-> docs]
    ELSE [ret |-> TRUE, docs |-> [docs EXCEPT ![file_id].parent = folder_id]]

\* google_docs_exporter.py:106-111: a failed move is logged as a warning and
\* export() returns True all the same.
ExportResultAfterMove(moved) == TRUE

\* Mutant of NeedsAuth: every export() authenticates.
NeedsAuthAlways(g) == TRUE

\* google_docs_exporter.py:86
NeedsAuth(g) == ~g.docs_service \/ ~g.drive_service

\* google_docs_exporter.py:73-118. doc: the document created, 0 if none;
\* authed: _authenticate was executed (line 87).
gd_export(g, d, title, content, metadata, env) ==
    LET needAuth == NeedsAuth(g)
        a == IF needAuth THEN _authenticate(g, env.auth) ELSE [ret |-> TRUE, gd |-> g]
        id == Len(d.docs) + 1
        created == Append(d.docs, [parent |-> 0, text |-> <<>>])
        ins == _insert_content(created, id, content, metadata, env.batch)
        mv == _move_to_folder(ins.docs, id, a.gd.folder_id, env.move)
    IN  IF ~a.ret
        THEN [ret |-> FALSE, gd |-> a.gd, drive |-> d, doc |-> 0, authed |-> needAuth]
        ELSE IF env.create # "ok"
        THEN [ret |-> FALSE, gd |-> a.gd, drive |-> d, doc |-> 0, authed |-> needAuth]
        ELSE IF ~ins.ret
        THEN [ret |-> FALSE, gd |-> a.gd, drive |-> [d EXCEPT !.docs = ins.docs], doc |-> id,
              authed |-> needAuth]
        ELSE IF a.gd.folder_id # 0
        THEN [ret |-> ExportResultAfterMove(mv.ret), gd |-> a.gd,
              drive |-> [d EXCEPT !.docs = mv.docs], doc |-> id, authed |-> needAuth]
        ELSE [ret |-> TRUE, gd |-> a.gd, drive |-> [d EXCEPT !.docs = ins.docs], doc |-> id,
              authed |-> needAuth]

\* google_docs_exporter.py:29-40.
NewExporter(folder) ==
    [gdocs_folder |-> folder, credentials |-> FALSE, docs_service |-> FALSE,
     drive_service |-> FALSE, folder_id |-> 0]

\* ------------------------------------------------ the AppleScript command

\* Mutant of _escape_for_applescript: the newlines are left as they are.
_escape_for_applescriptQuotesOnly(text) == replace(text, QUOTE, <<BSL, QUOTE>>)

\* apple_notes_exporter.py:236-250, applescript.py:203-217.
_escape_for_applescript(text) ==
    replace(replace(text, QUOTE, <<BSL, QUOTE>>), NL, <<BSL, "n">>)

\* exporters.py:41-64. kwargs: the keyword arguments of the call; a folder of
\* <<>> stands for none given.
create_exporter(export_type, kwargs) ==
    CASE export_type = "apple_notes" -> [cls |-> "AppleNotesExporter"]
      [] export_type = "google_docs" ->
            [cls |-> "GoogleDocsExporter", gdocs_folder |-> kwargs.gdocs_folder]
      [] OTHER -> [cls |-> "ValueError"]

\* apple_notes_exporter.py:60-77: the body, the separator and the metadata
\* block's HTML, joined with nothing between them.
an_full_content(html_content, has_metadata, metadata_html) ==
    IF has_metadata
    THEN html_content \o <<"<hr><br>">> \o metadata_html
    ELSE html_content

\* apple_notes_exporter.py:79-89: the command's target folder, whether the
\* command makes the folder when it is missing, and the two string literals.
an_script(title, html_content, has_metadata, metadata_html) ==
    [folder |-> <<"N", "o", "t", "e", "s">>,
     make_folder |-> FALSE,
     name |-> _escape_for_applescript(title),
     body |-> _escape_for_applescript(
                  an_full_content(html_content, has_metadata, metadata_html))]

\* applescript.py:67-80: the metadata block's HTML first, joined with
\* "<br><br>".
creator_full_content(html_content, has_metadata, metadata_html) ==
    IF has_metadata
    THEN metadata_html \o <<"<br><br>">> \o html_content
    ELSE html_content

\* applescript.py:82-99, AppleNotesCreator.create_note: the folder given, or
\* "Notes"; the command makes the folder when looking it up fails.
creator_script(title, html_content, has_metadata, metadata_html, folder) ==
    [folder |-> _escape_for_applescript(
                    IF folder # <<>> THEN folder ELSE <<"N", "o", "t", "e", "s">>),
     make_folder |-> TRUE,
     name |-> _escape_for_applescript(title),
     body |-> _escape_for_applescript(
                  creator_full_content(html_content, has_metadata, metadata_html))]

\* ------------------------------------------------- title and title header

\* Path(file).stem of the markdown file.
Stem == <<"n", "o", "t", "e">>

\* Mutant of is_h1: any line starting with '#' counts as a level-1 heading.
is_h1NoSpace(line) == startswith(line, <<"#">>)

\* line.startswith('# ') (metadata.py:82, apple_notes_exporter.py:148)
is_h1(line) == startswith(line, <<"#", " ">>)

\* Mutant of title_break: the scan ends at the first non-blank line.
title_breakAnyNonBlank(line) == line # <<>>

\* metadata.py:84: the line that ends the scan.
title_break(line) == line # <<>> /\ ~startswith(line, <<"#">>)

\* metadata.py:80-85, the loop: the title found, if any.
RECURSIVE title_scan(_)
title_scan(lines) ==
    IF lines = <<>> THEN [found |-> FALSE, title |-> <<>>]
    ELSE LET line == strip(Head(lines))
         IN  IF is_h1(line)
             THEN [found |-> TRUE, title |-> strip(SubSeq(line, 3, Len(line)))]
             ELSE IF title_break(line) THEN [found |-> FALSE, title |-> <<>>]
             ELSE title_scan(Tail(lines))

\* metadata.py:68-88. content: what get_content() returned.
get_title(content) ==
    LET r == title_scan(split(strip(content), NL))
    IN  IF r.found THEN r.title ELSE Stem

\* apple_notes_exporter.py:153-155: the leading blank lines are popped.
RECURSIVE drop_blank(_)
drop_blank(lines) ==
    IF lines # <<>> /\ strip(Head(lines)) = <<>> THEN drop_blank(Tail(lines)) ELSE lines

\* Mutant of header_matches: the heading is removed whatever its text.
header_matchesAny(header_title, title) == TRUE

\* apple_notes_exporter.py:150
header_matches(header_title, title) == header_title = title

\* apple_notes_exporter.py:142-159, the loop: whether the header was found
\* and the lines that remain.
RECURSIVE header_scan(_, _)
header_scan(lines, title) ==
    IF lines = <<>> THEN [hit |-> FALSE, rest |-> <<>>]
    ELSE LET line == strip(Head(lines))
         IN  IF line = <<>> THEN header_scan(Tail(lines), title)
             ELSE IF is_h1(line) /\ header_matches(strip(SubSeq(line, 3, Len(line))), title)
             THEN [hit |-> TRUE, rest |-> drop_blank(Tail(lines))]
             ELSE [hit |-> FALSE, rest |-> <<>>]

\* apple_notes_exporter.py:125-161
_remove_title_header(content, title) ==
    IF content = <<>> \/ title = <<>> THEN content
    ELSE LET r == header_scan(split(strip(content), NL), title)
         IN  IF r.hit THEN join(<<NL>>, r.rest) ELSE content

\* ------------------------------------------- MarkdownMetadataExtractor

\* Number of calls made on one extractor.
MaxCalls == 3

\* Bodies of the markdown files, after the front matter.
ExtractBodies ==
    { <<>>,
      <<"a">>,
      <<"#", " ", "a", NL, "a">>,
      <<NL, "#", "#", " ", "a", NL, "#", " ", "a", NL>> }

\* The lines of a front-matter block: "yaml" stands for its entries.
FrontMatterBlock(yaml) == <<"---", NL, yaml, NL, "---", NL>>

\* A markdown file and what frontmatter.load makes of it (metadata.py:36,
\* 62): the parsed entries and the body, trimmed, or an exception for YAML
\* that does not parse. A file without front matter parses to no entries.
MarkdownFiles ==
    {[kind |-> "absent", raw |-> b, load |-> "ok", metadata |-> <<>>, content |-> strip(b)]
        : b \in ExtractBodies}
    \cup
    {[kind |-> "malformed", raw |-> FrontMatterBlock("{") \o b, load |-> "raise",
      metadata |-> <<>>, content |-> <<>>] : b \in ExtractBodies}
    \cup
    {[kind |-> "valid", raw |-> FrontMatterBlock("yaml") \o b, load |-> "ok",
      metadata |-> fm, content |-> strip(b)]
        : fm \in FrontMatters \ {<<>>}, b \in ExtractBodies}

\* frontmatter.load(self.file_path)
load(file) ==
    IF file.load = "ok"
    THEN [exc |-> FALSE,
          post |-> [t |-> "post", metadata |-> file.metadata, content |-> file.content]]
    ELSE [exc |-> TRUE, post |-> NoneV]

\* metadata.py:12-16
NewExtractor == [_post |-> NoneV]

\* Mutant of _extract_frontmatter: no try block, the exception leaves it.
_extract_frontmatterNoTry(x, file) ==
    LET l == load(file)
    IN  IF l.exc THEN [exc |-> TRUE, ret |-> <<>>, mx |-> x]
        ELSE [exc |-> FALSE, ret |-> l.post.metadata, mx |-> [x EXCEPT !._post = l.post]]

\* metadata.py:34-42. ret: the entries returned, <<>> for None.
_extract_frontmatter(x, file) ==
    LET l == load(file)
    IN  IF l.exc THEN [exc |-> FALSE, ret |-> <<>>, mx |-> x]
        ELSE [exc |-> FALSE, ret |-> l.post.metadata, mx |-> [x EXCEPT !._post = l.post]]

\* metadata.py:18-32, on the instance.
mx_extract(x, file) ==
    LET f == _extract_frontmatter(x, file)
    IN  [exc |-> f.exc, ret |-> IF f.exc THEN NoneV ELSE extract(f.ret), mx |-> f.mx]

\* Mutant of get_content: without a cached post the raw file is returned.
get_contentUncachedRaw(x, file) ==
    IF x._post.t = "none" THEN [exc |-> FALSE, ret |-> file.raw, mx |-> x]
    ELSE [exc |-> FALSE, ret |-> x._post.content, mx |-> x]

\* metadata.py:54-66. A Post object is true.
get_content(x, file) ==
    IF x._post.t = "none"
    THEN LET l == load(file)
         IN  IF l.exc THEN [exc |-> FALSE, ret |-> file.raw, mx |-> x]
             ELSE [exc |-> FALSE, ret |-> l.post.content, mx |-> [x EXCEPT !._post = l.post]]
    ELSE [exc |-> FALSE, ret |-> x._post.content, mx |-> x]

\* metadata.py:68-88, on the instance.
mx_get_title(x, file) ==
    LET c == get_content(x, file)
    IN  [exc |-> FALSE, ret |-> get_title(c.ret), mx |-> c.mx]

\* ============================================================ file system
\* A path is the sequence of its names below the source root; a path that
\* starts with ".." is not under the source root. A file system holds its
\* files, each with a content, and its directories.

\* Number of calls of move_file.
MaxMoves == 2

\* Number of runs of the pipeline.
MaxRuns == 2

\* file_mover.py:29-30, app.py:42: the default clean directory <source>/clean.
clean_dir == <<"clean">>

\* The files at a path: none or one.
FileAt(f, p) == {x \in f.files : x.path = p}

\* Path.exists()
Exists(f, p) == FileAt(f, p) # {} \/ p \in f.dirs

\* Path.relative_to(self.source_dir) raises ValueError for a path that is not
\* under the source root (file_mover.py:54).
IsUnder(p) == p = <<>> \/ Head(p) # ".."

\* Path.parent
parent(p) == SubSeq(p, 1, Len(p) - 1)

\* mkdir(parents=True, exist_ok=True): the directory and the ones above it.
mkdir_parents(f, p) == [f EXCEPT !.dirs = @ \cup {SubSeq(p, 1, n) : n \in 1..Len(p)}]

\* What shutil.move does: "renamed" os.rename moved the file, replacing a
\* file at the destination; "error" it raised and changed nothing; "copied"
\* os.rename failed, the file was copied to the destination and removing
\* the source raised.
ShutilOutcomes == {"renamed", "error", "copied"}

\* What mkdir of the destination's parent does.
ParentMkdirOutcomes == {"ok", "error"}

\* shutil.move(src, dst) (file_mover.py:61)
shutil_move(f, src, dst, outcome) ==
    LET moved == {[path |-> dst, content |-> x.content] : x \in FileAt(f, src)}
    IN  CASE outcome = "renamed" ->
                [raised |-> FALSE,
                 fs |-> [f EXCEPT !.files = (@ \ (FileAt(f, src) \cup FileAt(f, dst))) \cup moved]]
          [] outcome = "copied" ->
                [raised |-> TRUE,
                 fs |-> [f EXCEPT !.files = (@ \ FileAt(f, dst)) \cup moved]]
          [] OTHER -> [raised |-> TRUE, fs |-> f]

\* Mutant of AfterMoveRaised: the exception is logged and True is returned.
AfterMoveRaisedTrue(f) == [ret |-> TRUE, fs |-> f]

\* file_mover.py:65-67
AfterMoveRaised(f) == [ret |-> FALSE, fs |-> f]

\* file_mover.py:37-67, on the file system. mk, mv: what mkdir and
\* shutil.move do.
FileMover_move_file(f, file_path, mk, mv) ==
    IF ~Exists(f, file_path) THEN [ret |-> FALSE, fs |-> f]
    ELSE IF ~IsUnder(file_path) THEN AfterMoveRaised(f)
    ELSE LET dest_path == clean_dir \o file_path
             made == mkdir_parents(f, parent(dest_path))
             m == shutil_move(made, file_path, dest_path, mv)
         IN  IF mk = "error" THEN AfterMoveRaised(f)
             ELSE IF m.raised THEN AfterMoveRaised(m.fs)
             ELSE [ret |-> TRUE, fs |-> m.fs]

\* The names of markdown files.
MarkdownNames == {"a.md", "b.md", "x.md"}

\* DirectoryScanner.scan_for_markdown: the markdown files under the source
\* root, at any depth.
scan_for_markdown(f) ==
    {x.path : x \in {y \in f.files : IsUnder(y.path) /\ y.path[Len(y.path)] \in MarkdownNames}}

\* A set of paths as a sequence, in some order.
RECURSIVE InOrder(_)
InOrder(S) ==
    IF S = {} THEN <<>>
    ELSE LET p == CHOOSE x \in S : TRUE IN <<p>> \o InOrder(S \ {p})

\* app.py:84-100 on the file system: move_file is called when the file was
\* exported, and what it returns is not looked at. exp: whether the file was
\* read and export() returned True; moved: what move_file returned.
process_file_fs(f, file_path, exp, mk, mv) ==
    LET m == FileMover_move_file(f, file_path, mk, mv)
    IN  IF exp THEN [ret |-> TRUE, moved |-> m.ret, fs |-> m.fs]
        ELSE [ret |-> FALSE, moved |-> FALSE, fs |-> f]

ArchiveIdle ==
    /\ fs = [files |-> {}, dirs |-> {clean_dir}]
    /\ mvLast = [op |-> "none", n |-> 0]
    /\ rr = [run |-> 0, phase |-> "idle", queue |-> <<>>, exports |-> <<0, 0>>,
             archived |-> {}, again |-> {}]

\* ------------------------------------------------------------ idle parts

TextIdle ==
    /\ txIn = [fn |-> "none"]
    /\ txOut = [op |-> "none"]
    /\ rendered = [op |-> "none"]

ExtractorIdle ==
    /\ mdFile = [kind |-> "absent", raw |-> <<>>, load |-> "ok", metadata |-> <<>>,
                 content |-> <<>>]
    /\ mx = NewExtractor
    /\ mxLog = <<>>

PureIdle == TextIdle /\ ExtractorIdle

AppleIdle ==
    /\ anArgs = [title |-> StrV("T"), content |-> StrV(""), metadata |-> NoneV, env |-> "ok",
                 notes_running |-> TRUE]
    /\ an = [op |-> "none", ret |-> "none"]

GDocsIdle ==
    /\ gd = NewExporter(NoneV)
    /\ drive = [folders |-> {}, docs |-> <<>>]
    /\ gl = [op |-> "none", ret |-> FALSE, doc |-> 0]
    /\ gh = [folders0 |-> {}, log |-> <<>>]

\* The metadata arguments the cloud exporter is called with.
GDocsMetadatas ==
    {NoneV, extract(<<>>), extract(<<Entry("size", StrV("big"))>>)}

InitGDocs ==
    /\ RunInit
    /\ AppleIdle
    /\ PureIdle
    /\ gd \in {NewExporter(NoneV), NewExporter(StrV("F"))}
    /\ ArchiveIdle
    /\ drive \in {[folders |-> F, docs |-> <<>>] : F \in {{}, {1}}}
    /\ gl = [op |-> "none", ret |-> FALSE, doc |-> 0]
    /\ gh = [folders0 |-> drive.folders, log |-> <<>>]

\* One call on the exporter, as the session's history keeps it. ready: the
\* two service handles are set after the call; folder: what
\* _find_or_create_folder returned when it was executed (looked).
SessionCall(op, ret, authed, g, looked, folder) ==
    [op |-> op, ret |-> ret, authed |-> authed,
     ready |-> g.docs_service /\ g.drive_service, looked |-> looked, folder |-> folder]

GDocsValidate ==
    /\ Len(gh.log) < MaxSession
    /\ \E env \in [creds_file : BOOLEAN, auth : AuthOutcomes, list : ApiOutcomes,
                   create_folder : ApiOutcomes] :
        LET r == gd_validate_configuration(gd, drive, env)
        IN  /\ gd' = r.gd
            /\ drive' = r.drive
            /\ gl' = [op |-> "validate_configuration", ret |-> r.ret, doc |-> 0]
            /\ gh' = [gh EXCEPT !.log = Append(@,
                          SessionCall("validate_configuration", r.ret, r.authed, r.gd,
                                      r.looked, r.gd.folder_id))]
    /\ UNCHANGED <<runVars, appleVars, pureVars, archiveVars>>

GDocsExport ==
    /\ Len(gh.log) < MaxSession
    /\ Len(drive.docs) < MaxDocs
    /\ \E title \in Titles, content \in Contents, metadata \in GDocsMetadatas,
          env \in [auth : IF gd.docs_service /\ gd.drive_service THEN {"ok"} ELSE AuthOutcomes,
                   create : CreateOutcomes, batch : ApiOutcomes, move : ApiOutcomes] :
        LET r == gd_export(gd, drive, title, content, metadata, env)
        IN  /\ gd' = r.gd
            /\ drive' = r.drive
            /\ gl' = [op |-> "export", ret |-> r.ret, doc |-> r.doc]
            /\ gh' = [gh EXCEPT !.log = Append(@,
                          SessionCall("export", r.ret, r.authed, r.gd, FALSE, 0))]
    /\ UNCHANGED <<runVars, appleVars, pureVars, archiveVars>>

\* _find_or_create_folder called with the exporter's folder name.
FindOrCreateFolder ==
    /\ Len(gh.log) < MaxSession
    /\ \E list \in ApiOutcomes, create \in ApiOutcomes :
        LET r == _find_or_create_folder(drive, list, create)
        IN  /\ drive' = r.drive
            /\ gl' = [op |-> "_find_or_create_folder", ret |-> r.id # 0, doc |-> 0,
                      caught |-> r.caught]
            /\ gh' = [gh EXCEPT !.log = Append(@,
                          SessionCall("_find_or_create_folder", r.id # 0, FALSE, gd,
                                      TRUE, r.id))]
    /\ UNCHANGED <<gd, runVars, appleVars, pureVars, archiveVars>>

GDocsNext == GDocsValidate \/ GDocsExport \/ FindOrCreateFolder

SpecGDocs == InitGDocs /\ [][GDocsNext]_vars

\* ------------------------------------------- AppleNotesExporter calls

\* A file's size in bytes.
MaxSize == 2048

\* metadata.py:44-52: the properties of a file of n bytes.
SizedProperties(n) ==
    [i \in DOMAIN FileProperties |->
        IF FileProperties[i].key = "size" THEN Entry("size", IntV(n)) ELSE FileProperties[i]]

\* What extract() gives for files of every size, without front matter.
SizeMetadatas == {Dict(SizedProperties(n)) : n \in 0..MaxSize}

AppleInit ==
    /\ anArgs \in
           [title : Titles, content : Contents, metadata : Metadatas, env : ScriptOutcomes,
            notes_running : BOOLEAN]
           \cup
           [title : {StrV("T")}, content : {StrV("")}, metadata : SizeMetadatas, env : {"ok"},
            notes_running : {TRUE}]
    /\ an = [op |-> "none", ret |-> "none"]

AppleValidate ==
    /\ an.op = "none"
    /\ an' = [op |-> "validate_configuration", ret |-> an_validate_configuration(anArgs.env)]
    /\ UNCHANGED <<anArgs, runVars, gdocsVars, pureVars, archiveVars>>

AppleExport ==
    /\ an.op = "none"
    /\ an' = [op |-> "export",
              ret |-> an_export(anArgs.title, anArgs.content, anArgs.metadata, anArgs.env)]
    /\ UNCHANGED <<anArgs, runVars, gdocsVars, pureVars, archiveVars>>

\* _format_metadata of either exporter, called on the metadata.
FormatMetadata ==
    /\ an.op = "none"
    /\ rendered.op = "none"
    /\ rendered' = [op |-> "_format_metadata",
                    an |-> an_format_metadata(anArgs.metadata),
                    gd |-> gd_format_metadata(anArgs.metadata)]
    /\ UNCHANGED <<txIn, txOut, appleVars, runVars, gdocsVars, extractorVars, archiveVars>>

AppleNext == AppleValidate \/ AppleExport \/ FormatMetadata

InitExport == RunInit /\ AppleInit /\ GDocsIdle /\ PureIdle /\ ArchiveIdle

SpecExport == InitExport /\ [][AppleNext]_vars

\* ------------------------------------------------ the AppleScript command

Texts == SeqsUpTo(ScriptChars, MaxText)

\* The HTML of the metadata block, when there is metadata.
MetadataHtmls == {<<"m", QUOTE, NL>>}

\* The folder asked for: none, or a name.
Folders == {<<>>, <<"W">>, <<"W", QUOTE>>}

ScriptInputs ==
    [title : Texts, html_content : Texts, has_metadata : {FALSE},
     metadata_html : {<<>>}, folder : Folders]
    \cup
    [title : Texts, html_content : Texts, has_metadata : {TRUE},
     metadata_html : MetadataHtmls, folder : Folders]

InitScript ==
    /\ RunInit
    /\ AppleIdle
    /\ GDocsIdle
    /\ ExtractorIdle
    /\ ArchiveIdle
    /\ txIn \in ScriptInputs
    /\ txOut = [op |-> "none"]
    /\ rendered = [op |-> "none"]

\* MD2Note's exporter (app.py:46) building the command of export().
ExportScript ==
    /\ txOut.op = "none"
    /\ LET e == create_exporter("apple_notes",
                                [folder |-> txIn.folder, gdocs_folder |-> <<>>])
       IN  /\ e.cls = "AppleNotesExporter"
           /\ txOut' = [op |-> "export",
                        script |-> an_script(txIn.title, txIn.html_content,
                                             txIn.has_metadata, txIn.metadata_html)]
    /\ UNCHANGED <<txIn, rendered, runVars, exporterVars, extractorVars, archiveVars>>

\* AppleNotesCreator.create_note building its command.
CreateNoteScript ==
    /\ txOut.op = "none"
    /\ txOut' = [op |-> "create_note",
                 script |-> creator_script(txIn.title, txIn.html_content, txIn.has_metadata,
                                           txIn.metadata_html, txIn.folder)]
    /\ UNCHANGED <<txIn, rendered, runVars, exporterVars, extractorVars, archiveVars>>

ScriptNext == ExportScript \/ CreateNoteScript

SpecScript == InitScript /\ [][ScriptNext]_vars

\* ------------------------------------------------- title and title header

Bodies == SeqsUpTo(BodyChars, MaxBody)

\* The title argument of _remove_title_header.
HeaderTitles == {<<>>, <<"a">>, <<"a", " ">>}

InitTitle ==
    /\ RunInit
    /\ AppleIdle
    /\ GDocsIdle
    /\ ExtractorIdle
    /\ ArchiveIdle
    /\ txIn \in [content : Bodies, title : HeaderTitles]
    /\ txOut = [op |-> "none"]
    /\ rendered = [op |-> "none"]

GetTitle ==
    /\ txOut.op = "none"
    /\ txOut' = [op |-> "get_title", val |-> get_title(txIn.content)]
    /\ UNCHANGED <<txIn, rendered, runVars, exporterVars, extractorVars, archiveVars>>

RemoveTitleHeader ==
    /\ txOut.op = "none"
    /\ txOut' = [op |-> "_remove_title_header",
                 val |-> _remove_title_header(txIn.content, txIn.title)]
    /\ UNCHANGED <<txIn, rendered, runVars, exporterVars, extractorVars, archiveVars>>

\* app.py:84-91 with apple_notes_exporter.py:55: the title from get_title()
\* and the content from get_content(), trimmed by the loader, go to export(),
\* which removes the title's header from the content.
ExportAfterGetTitle ==
    /\ txOut.op = "none"
    /\ LET content == strip(txIn.content)
           title == get_title(content)
       IN  txOut' = [op |-> "process_file", content |-> content, title |-> title,
                     val |-> _remove_title_header(content, title)]
    /\ UNCHANGED <<txIn, rendered, runVars, exporterVars, extractorVars, archiveVars>>

TitleNext == GetTitle \/ RemoveTitleHeader \/ ExportAfterGetTitle

SpecTitle == InitTitle /\ [][TitleNext]_vars

\* ------------------------------------------- MarkdownMetadataExtractor calls

InitExtract ==
    /\ RunInit
    /\ AppleIdle
    /\ GDocsIdle
    /\ TextIdle
    /\ ArchiveIdle
    /\ mdFile \in MarkdownFiles
    /\ mx = NewExtractor
    /\ mxLog = <<>>

\* One call on the extractor: its result is logged, its fields are updated.
Called(op, r) ==
    /\ Len(mxLog) < MaxCalls
    /\ mx' = r.mx
    /\ mxLog' = Append(mxLog, [op |-> op, exc |-> r.exc, ret |-> r.ret])
    /\ UNCHANGED <<mdFile, textVars, runVars, exporterVars, archiveVars>>

ExtractCall == Called("extract", mx_extract(mx, mdFile))

GetContentCall == Called("get_content", get_content(mx, mdFile))

GetTitleCall == Called("get_title", mx_get_title(mx, mdFile))

ExtractNext == ExtractCall \/ GetContentCall \/ GetTitleCall

SpecExtract == InitExtract /\ [][ExtractNext]_vars

\* ------------------------------------------------- FileMover.move_file calls

\* The file systems move_file is called on: a.md and sub/b.md under the
\* source root, or not; a file archived earlier as clean/a.md, or not; a file
\* outside the source root.
MoverFileSystems ==
    {[files |-> S \cup {[path |-> <<"..", "x.md">>, content |-> 4]},
      dirs |-> {clean_dir, <<"sub">>}] :
        S \in SUBSET {[path |-> <<"a.md">>, content |-> 1],
                      [path |-> <<"sub", "b.md">>, content |-> 2],
                      [path |-> <<"clean", "a.md">>, content |-> 3]}}

\* The paths move_file is called with.
MovePaths == {<<"a.md">>, <<"sub", "b.md">>, <<"..", "x.md">>, <<"gone.md">>}

InitMover ==
    /\ RunInit
    /\ AppleIdle
    /\ GDocsIdle
    /\ PureIdle
    /\ fs \in MoverFileSystems
    /\ mvLast = [op |-> "none", n |-> 0]
    /\ rr = [run |-> 0, phase |-> "idle", queue |-> <<>>, exports |-> <<0, 0>>,
             archived |-> {}, again |-> {}]

MoveFile ==
    /\ mvLast.n < MaxMoves
    /\ \E file_path \in MovePaths, mk \in ParentMkdirOutcomes, mv \in ShutilOutcomes :
          LET r == FileMover_move_file(fs, file_path, mk, mv)
          IN  /\ fs' = r.fs
              /\ mvLast' = [op |-> "move_file", n |-> mvLast.n + 1, path |-> file_path,
                            ret |-> r.ret, before |-> fs]
    /\ UNCHANGED <<rr, runVars, exporterVars, pureVars>>

MoverNext == MoveFile

SpecMover == InitMover /\ [][MoverNext]_vars

\* ----------------------------------------------------- runs of the pipeline

\* The source directory before the first run: the documents 1 and 2.
RunsFileSystem ==
    [files |-> {[path |-> <<"a.md">>, content |-> 1],
                [path |-> <<"sub", "b.md">>, content |-> 2]},
     dirs |-> {clean_dir, <<"sub">>}]

InitRuns ==
    /\ RunInit
    /\ AppleIdle
    /\ GDocsIdle
    /\ PureIdle
    /\ fs = RunsFileSystem
    /\ mvLast = [op |-> "none", n |-> 0]
    /\ rr = [run |-> 0, phase |-> "idle", queue |-> <<>>, exports |-> <<0, 0>>,
             archived |-> {}, again |-> {}]

\* app.py:116: a run starts with the scanner's result.
StartRun ==
    /\ rr.phase = "idle"
    /\ rr.run < MaxRuns
    /\ rr' = [rr EXCEPT !.run = @ + 1, !.phase = "running",
                        !.queue = InOrder(scan_for_markdown(fs))]
    /\ UNCHANGED <<fs, mvLast, runVars, exporterVars, pureVars>>

\* app.py:129-133: one iteration of the loop.
ProcessNextFile ==
    /\ rr.phase = "running"
    /\ rr.queue # <<>>
    /\ \E exp \in BOOLEAN, mk \in ParentMkdirOutcomes, mv \in ShutilOutcomes :
          LET file_path == Head(rr.queue)
              \* a file that is gone cannot be read: process_file returns False
              read == exp /\ FileAt(fs, file_path) # {}
              doc == (CHOOSE x \in FileAt(fs, file_path) : TRUE).content
              r == process_file_fs(fs, file_path, read, mk, mv)
          IN  /\ fs' = r.fs
              /\ rr' = IF r.ret
                          THEN [rr EXCEPT !.queue = Tail(@),
                                          !.exports[doc] = @ + 1,
                                          !.again = IF doc \in rr.archived
                                                    THEN @ \cup {doc} ELSE @,
                                          !.archived = IF r.moved THEN @ \cup {doc} ELSE @]
                          ELSE [rr EXCEPT !.queue = Tail(@)]
    /\ UNCHANGED <<mvLast, runVars, exporterVars, pureVars>>

\* app.py:135-136: the run ends after the last file.
EndRun ==
    /\ rr.phase = "running"
    /\ rr.queue = <<>>
    /\ rr' = [rr EXCEPT !.phase = "idle"]
    /\ UNCHANGED <<fs, mvLast, runVars, exporterVars, pureVars>>

RunsNext == StartRun \/ ProcessNextFile \/ EndRun

SpecRuns == InitRuns /\ [][RunsNext]_vars

\* ------------------------------------------------------ the pipeline run

Init == RunInit /\ AppleIdle /\ GDocsIdle /\ PureIdle /\ ArchiveIdle

Next == RunNext

Spec == Init /\ [][Next]_vars

\* ================================================================ claims
\* Helpers over the call log.

CallsOf(op) == {i \in DOMAIN calls : calls[i].op = op}

FileOps == {"ctor", "get_content", "extract", "get_title", "export", "move_file"}

FileCalls == {i \in DOMAIN calls : calls[i].op \in FileOps}

\* The paths process_file was invoked on, in order (its first step is the
\* construction of the extractor).
Invoked ==
    LET c == SelectSeq(calls, LAMBDA x : x.op = "ctor")
    IN  [i \in DOMAIN c |-> c[i].f]

ExportReturnedTrue(f) ==
    \E i \in DOMAIN calls : calls[i] = Call("export", f, "true")

Processed(f) == \E i \in DOMAIN calls : calls[i].op = "ctor" /\ calls[i].f = f

RunRaised == pc \in {"raised", "raised_config"}

ValidateReturned(v) ==
    \E i \in DOMAIN calls : calls[i] = Call("validate_configuration", 0, v)

\* C1: run() calls validate_configuration exactly once, before the scanner,
\* any extractor, any export and any move_file; when it returns false run()
\* raises the configuration error and nothing else is called (no scan, no
\* export, no archive).
C1_ValidateFirst ==
    /\ pc # "start" => Cardinality(CallsOf("validate_configuration")) = 1
    /\ pc = "start" => calls = <<>>
    /\ calls # <<>> => calls[1].op = "validate_configuration"
    /\ ValidateReturned("false") =>
        /\ pc = "raised_config"
        /\ Len(calls) = 1
        /\ atSource = Paths /\ atClean = {}

C1_Witness == pc = "raised_config" /\ ValidateReturned("false")

\* C2: once validation passed, process_file is invoked exactly once for
\* every path the scanner returned, in the scanner's order, whatever the
\* earlier files did: the invocations so far are the first idx paths, run()
\* does not leave the loop by raising, and it reaches the summary only after
\* the last path.
C2_EveryFileOnceInOrder ==
    /\ Invoked = SubSeq(files, 1, idx)
    /\ pc = "done" => idx = Len(files)
    /\ RunRaised => idx = 0 /\ Invoked = <<>>

C2_Witness ==
    /\ pc = "done"
    /\ Len(files) = MaxFiles
    /\ \E i \in DOMAIN calls : calls[i].f = files[1] /\ calls[i].out = "raise"
    /\ calls[Len(calls)].f = files[MaxFiles]
    /\ ~results[1] /\ results[MaxFiles]

\* C3: move_file(path) is called if and only if export() returned true for
\* that path, and after it returned; a processed file whose export did not
\* return true is not archived and is still at its original path.
C3_MoveIffExported ==
    \A f \in Paths :
        /\ (\E j \in DOMAIN calls : calls[j].op = "move_file" /\ calls[j].f = f)
            <=> ExportReturnedTrue(f)
        /\ \A j \in DOMAIN calls :
            (calls[j].op = "move_file" /\ calls[j].f = f) =>
                j > 1 /\ calls[j - 1] = Call("export", f, "true")
        /\ (Processed(f) /\ ~ExportReturnedTrue(f)) => (f \in atSource /\ f \notin atClean)

C3_Witness ==
    /\ pc = "done"
    /\ \E f, g \in Paths :
        /\ \E i \in DOMAIN calls : calls[i] = Call("export", f, "false")
        /\ f \in atSource
        /\ ExportReturnedTrue(g) /\ g \in atClean /\ g \notin atSource

\* C4: process_file returns true only when extraction, export and archival
\* all succeeded: every file tallied as successful is archived.
C4_SuccessfulIsArchived ==
    \A i \in DOMAIN results : results[i] => files[i] \in atClean

\* C5: process_file never raises: every invocation returned a value, an
\* invocation in which a collaborator raised returned false, and after the
\* raising call no further call was made for that file.
C5_ProcessFileNeverRaises ==
    /\ Len(Invoked) = Len(results)
    /\ \A i \in DOMAIN calls :
        (calls[i].f # 0 /\ calls[i].out = "raise") =>
            /\ \A j \in DOMAIN calls : j > i => calls[j].f # calls[i].f
            /\ \A k \in DOMAIN results : files[k] = calls[i].f => ~results[k]

C5_Witness ==
    /\ pc = "done"
    /\ \E i, j, k \in DOMAIN calls :
        /\ calls[i].op = "get_title" /\ calls[i].out = "raise"
        /\ calls[j].op = "export" /\ calls[j].out = "raise"
        /\ calls[k].op = "move_file" /\ calls[k].out = "raise"

C7_TallyState ==
    /\ successful + failed = idx
    /\ idx = Len(results)
    /\ successful = Cardinality({i \in DOMAIN results : results[i]})
    /\ failed = Cardinality({i \in DOMAIN results : ~results[i]})
    /\ pc = "done" => successful + failed = Len(files)

C7_Tally ==
    /\ []C7_TallyState
    /\ [][successful' >= successful /\ failed' >= failed]_vars

C7_Witness == pc = "done" /\ successful >= 1 /\ failed >= 2

\* C8: when validation passed and the scanner returned no files, run() ends
\* normally: it has not raised, no extractor was constructed and no export
\* or move_file call was made.
C8_NoFilesEndsNormally ==
    (ValidateReturned("true") /\ calls[Len(calls)] = Call("scan_for_markdown", 0, "ok")
        /\ files = <<>>) =>
        /\ pc = "returned_empty"
        /\ FileCalls = {}
        /\ successful = 0 /\ failed = 0

C8_Witness == pc = "returned_empty" /\ files = <<>> /\ Len(calls) = 3

\* C9: for both exporters neither validate_configuration() nor export() ever
\* raises to the caller, whatever the title, body and metadata (None values,
\* front matter overriding size or modified_time with any scalar or list):
\* the call returns a boolean.
C9_ExportersNeverRaise ==
    /\ an.op # "none" => an.ret \in {"true", "false"}
    /\ gl.ret \in BOOLEAN

\* C10: for a GoogleDocsExporter constructed with a target folder name, in
\* any sequence of validate_configuration() and export() calls, whenever
\* export() returns true the created document is in the named folder (so a
\* folder that was not resolved or a failed move gives false).
C10_TrueMeansInFolder ==
    (gl.op = "export" /\ gl.ret /\ Truthy(gd.gdocs_folder)) =>
        /\ gl.doc # 0
        /\ drive.docs[gl.doc].parent \in drive.folders

\* ---------------------------------------------------------------- C11, C12
\* What the escaping asks of one character of an interpolated text.
EscapedChar(c) ==
    IF c = QUOTE THEN <<BSL, QUOTE>> ELSE IF c = NL THEN <<BSL, "n">> ELSE <<c>>

RECURSIVE Escaped(_)
Escaped(text) ==
    IF text = <<>> THEN <<>> ELSE EscapedChar(Head(text)) \o Escaped(Tail(text))

\* No newline, and no double quote without a backslash right before it.
NoRaw(s) ==
    \A i \in DOMAIN s :
        /\ s[i] # NL
        /\ s[i] = QUOTE => (i > 1 /\ s[i - 1] = BSL)

ScriptBuilt == txOut.op \in {"export", "create_note"}

\* The body a command is built from, before it is escaped.
ComposedBody ==
    IF txOut.op = "export"
    THEN an_full_content(txIn.html_content, txIn.has_metadata, txIn.metadata_html)
    ELSE creator_full_content(txIn.html_content, txIn.has_metadata, txIn.metadata_html)

\* C11: in the AppleScript command built for a note, the title, the composed
\* body and the folder name appear with every double quote replaced by
\* backslash + double quote and every newline replaced by backslash + 'n'; no
\* raw double quote and no raw newline of the input is in the command.
C11_EscapedInCommand ==
    ScriptBuilt =>
        /\ txOut.script.name = Escaped(txIn.title)
        /\ txOut.script.body = Escaped(ComposedBody)
        /\ (txOut.op = "create_note" /\ txIn.folder # <<>>)
               => txOut.script.folder = Escaped(txIn.folder)
        /\ NoRaw(txOut.script.name)
        /\ NoRaw(txOut.script.body)
        /\ NoRaw(txOut.script.folder)

\* export() was called with a title holding a double quote and a body
\* holding a newline.
C11_Witness ==
    /\ txOut.op = "export"
    /\ \E i \in DOMAIN txIn.title : txIn.title[i] = QUOTE
    /\ \E i \in DOMAIN txIn.html_content : txIn.html_content[i] = NL
    /\ txIn.has_metadata

\* C12: the exporter the factory gives for "apple_notes" creates the note in
\* the folder configured, makes that folder in the same call when it is
\* missing, and uses the folder "Notes" when none is configured.
C12_FolderSupported ==
    txOut.op = "export" =>
        /\ txOut.script.folder =
               (IF txIn.folder # <<>> THEN Escaped(txIn.folder)
                ELSE <<"N", "o", "t", "e", "s">>)
        /\ txIn.folder # <<>> => txOut.script.make_folder

\* ----------------------------------------------------------- C13, C14, C17
\* The results extract() returned so far.
Extracted == {i \in DOMAIN mxLog : mxLog[i].op = "extract"}

SameKey(a, b) == a.key = b.key /\ a.keyIsStr = b.keyIsStr

\* The entries of a result that carry the key of e.
WithKey(items, e) == {k \in DOMAIN items : SameKey(items[k], e)}

InSeq(s, e) == \E k \in DOMAIN s : SameKey(s[k], e)

\* C13: for a file with front matter, extract() returns the file properties
\* overlaid with the front matter: every front-matter key is there once with
\* its front-matter value (also when it is the key of a file property), every
\* other file property keeps its value, and there is no other key.
C13_FrontMatterOverlay ==
    mdFile.kind = "valid" =>
        \A i \in Extracted :
            /\ ~mxLog[i].exc
            /\ LET items == mxLog[i].ret.items
               IN  /\ \A k \in DOMAIN mdFile.metadata :
                          /\ Cardinality(WithKey(items, mdFile.metadata[k])) = 1
                          /\ \E n \in DOMAIN items : items[n] = mdFile.metadata[k]
                   /\ \A k \in DOMAIN FileProperties :
                          ~InSeq(mdFile.metadata, FileProperties[k]) =>
                              /\ Cardinality(WithKey(items, FileProperties[k])) = 1
                              /\ \E n \in DOMAIN items : items[n] = FileProperties[k]
                   /\ \A n \in DOMAIN items :
                          InSeq(mdFile.metadata, items[n]) \/ InSeq(FileProperties, items[n])

\* extract() ran on a file whose front matter names the key size.
C13_Witness ==
    /\ mdFile.kind = "valid"
    /\ mdFile.metadata = <<Entry("size", IntV(1536))>>
    /\ Extracted # {}

\* C14: for a file whose front matter does not parse, or that has none,
\* extract() does not raise and returns exactly the file properties.
C14_NoFrontMatterGivesProperties ==
    mdFile.kind \in {"malformed", "absent"} =>
        \A i \in Extracted : ~mxLog[i].exc /\ mxLog[i].ret = Dict(FileProperties)

\* extract() ran on a file with malformed front matter.
C14_Witness == mdFile.kind = "malformed" /\ Extracted # {}

\* What get_content() returns for a file, whatever was called before: the
\* parsed body, or the raw text when the file does not parse.
ContentOf(file) == IF file.load = "ok" THEN file.content ELSE file.raw

\* C17: on one extractor over an unchanged file, every call of a method gives
\* what the earlier calls of that method gave, and get_content() gives the
\* same whether or not extract() ran before it.
C17_CallsAgree ==
    /\ \A i, j \in DOMAIN mxLog :
           mxLog[i].op = mxLog[j].op =>
               (mxLog[i].exc = mxLog[j].exc /\ mxLog[i].ret = mxLog[j].ret)
    /\ \A i \in DOMAIN mxLog :
           mxLog[i].op = "get_content" => mxLog[i].ret = ContentOf(mdFile)

\* get_content() ran before and after extract() on a file with malformed
\* front matter.
C17_Witness ==
    /\ mdFile.kind = "malformed"
    /\ Len(mxLog) = 3
    /\ mxLog[1].op = "get_content"
    /\ mxLog[2].op = "extract"
    /\ mxLog[3].op = "get_content"

\* ----------------------------------------------------------- C15, C16, C18
\* The lines of a text, each trimmed.
TrimmedLines(text) ==
    LET L == split(text, NL) IN [i \in DOMAIN L |-> strip(L[i])]

\* A trimmed line that is a level-1 heading, and the heading's text.
HashSpace(line) == Len(line) >= 2 /\ line[1] = "#" /\ line[2] = " "

HeadingText(line) == strip(SubSeq(line, 3, Len(line)))

\* The first line at or after position m that is not blank; 0 if none.
NonBlankFrom(T, m) ==
    IF \E i \in m..Len(T) : T[i] # <<>>
    THEN CHOOSE i \in m..Len(T) : T[i] # <<>> /\ \A j \in m..(i - 1) : T[j] = <<>>
    ELSE 0

\* C15 as stated: get_title() is decided by the first non-blank line alone:
\* its text after "# " if it starts so, else the file's base name.
C15_FirstNonBlankLineDecides ==
    txOut.op = "get_title" =>
        LET T == TrimmedLines(txIn.content)
            k == NonBlankFrom(T, 1)
        IN  txOut.val = IF k # 0 /\ HashSpace(T[k]) THEN HeadingText(T[k]) ELSE Stem

\* A line the scan goes past: blank, or starting with '#' but not with "# ".
Skipped(line) == line = <<>> \/ (line[1] = "#" /\ ~HashSpace(line))

\* C15: get_title() goes past blank lines and lines that start with '#' but
\* not with "# "; the first line starting with "# " it reaches gives the
\* title, and it stops at the first other line: the title is then the file's
\* base name.
C15_FirstHeadingPastHashLines ==
    txOut.op = "get_title" =>
        LET T == TrimmedLines(txIn.content)
            Reached == {k \in DOMAIN T :
                           HashSpace(T[k]) /\ \A j \in 1..(k - 1) : Skipped(T[j])}
        IN  /\ Cardinality(Reached) <= 1
            /\ \A k \in Reached : txOut.val = HeadingText(T[k])
            /\ Reached = {} => txOut.val = Stem

\* get_title() took the title from a heading below a line that holds only
\* '#'.
C15_Witness ==
    /\ txOut.op = "get_title"
    /\ txIn.content = <<"#", NL, "#", " ", "a">>
    /\ txOut.val = <<"a">>

\* C16: for a body without a level-1 heading line, get_title() is the file's
\* base name without its extension.
C16_NoHeadingGivesStem ==
    txOut.op = "get_title" =>
        LET T == TrimmedLines(txIn.content)
        IN  (\A i \in DOMAIN T : ~HashSpace(T[i])) => txOut.val = Stem

\* get_title() ran on a body that holds a level-2 heading only.
C16_Witness ==
    /\ txOut.op = "get_title"
    /\ txIn.content = <<"#", "#", " ", "a">>
    /\ txOut.val = Stem

\* The first non-blank line of the content is the heading of the title.
HeaderIsTitle(text) ==
    LET T == TrimmedLines(text)
        k == NonBlankFrom(T, 1)
    IN  /\ text # <<>>
        /\ txIn.title # <<>>
        /\ k # 0
        /\ HashSpace(T[k])
        /\ HeadingText(T[k]) = txIn.title

\* The text without its first non-blank line and the blank lines after it.
WithoutHeader(text) ==
    LET L == split(text, NL)
        T == TrimmedLines(text)
        k == NonBlankFrom(T, 1)
        m == NonBlankFrom(T, k + 1)
    IN  join(<<NL>>, SubSeq(L, 1, k - 1) \o (IF m = 0 THEN <<>> ELSE SubSeq(L, m, Len(L))))

\* C18 as stated: the result is the content without the heading line and the
\* blank lines after it when the heading is the title, else the content.
C18_HeaderRemovedFromContent ==
    txOut.op = "_remove_title_header" =>
        txOut.val = IF HeaderIsTitle(txIn.content)
                    THEN WithoutHeader(txIn.content)
                    ELSE txIn.content

\* C18: when the heading is the title, the result is the content, trimmed
\* of leading and trailing whitespace, without the heading line and the blank
\* lines after it; in every other case it is the content unchanged.
C18_HeaderRemovedFromTrimmed ==
    txOut.op = "_remove_title_header" =>
        txOut.val = IF HeaderIsTitle(txIn.content)
                    THEN WithoutHeader(strip(txIn.content))
                    ELSE txIn.content

\* The header "# a" and the blank line after it were removed.
C18_Witness ==
    /\ txOut.op = "_remove_title_header"
    /\ txIn.content = <<"#", " ", "a", NL, NL, "a">>
    /\ txIn.title = <<"a">>
    /\ txOut.val = <<"a">>


\* ----------------------------------------------------------- C19, C20
Formatted == rendered.op = "_format_metadata" /\ Truthy(anArgs.metadata)

\* The two renderers' results for the metadata.
Renderings == {rendered.an, rendered.gd}

\* The keys formatted one by one, in the block's order, with their labels.
FixedKeys == <<"filename", "filepath", "modified_time", "size">>

FixedLabels == <<LabelFilename, LabelFilePath, LabelModified, LabelSize>>

\* The positions of FixedKeys whose key is in the metadata.
PresentFixed(md) ==
    SelectSeq(<<1, 2, 3, 4>>, LAMBDA p : HasKey(md, FixedKeys[p]))

NotHandled(md) ==
    SelectSeq(md.items,
              LAMBDA e : e.key \notin {"filename", "filepath", "modified_time",
                                        "created_time", "size"})

\* The labels the keys of the model are to be given.
ExpectedLabel ==
    [title |-> <<"T", "i", "t", "l", "e">>,
     tags |-> <<"T", "a", "g", "s">>,
     custom_field |-> <<"C", "u", "s", "t", "o", "m", " ", "F", "i", "e", "l", "d">>]

SizeLine(md) ==
    Cardinality({k \in {"filename", "filepath", "modified_time"} : HasKey(md, k)}) + 1

\* C20: a size of n bytes is rendered as n bytes below 1024 and else as
\* n/1024 rounded to one decimal, in KB; 500 gives 500 bytes, 1024 gives
\* 1.0 KB, 1536 gives 1.5 KB; both renderers give the same.
C20_SizeRendering ==
    (/\ Formatted
     /\ HasKey(anArgs.metadata, "size")
     /\ Get(anArgs.metadata, "size").t = "int"
     /\ ~rendered.an.exc
     /\ ~rendered.gd.exc) =>
        LET n == Get(anArgs.metadata, "size").n
            a == rendered.an.lines[SizeLine(anArgs.metadata)]
            g == rendered.gd.lines[SizeLine(anArgs.metadata)]
        IN  /\ a.label = LabelSize
            /\ g.label = LabelSize
            /\ a.val = g.val
            /\ n < 1024 => a.val = [unit |-> "bytes", n |-> n]
            /\ n >= 1024 =>
                   /\ a.val.unit = "KB"
                   /\ 10 * n - 1024 * a.val.tenths <= 512
                   /\ 1024 * a.val.tenths - 10 * n <= 512
            /\ n = 1024 => a.val.tenths = 10
            /\ n = 1536 => a.val.tenths = 15

\* A block was rendered for a file of 1536 bytes.
C20_Witness ==
    /\ Formatted
    /\ anArgs.metadata = Dict(SizedProperties(1536))
    /\ rendered.an.lines[4].val = [unit |-> "KB", tenths |-> 15]

\* ---------------------------------------------------------------- C22, C26
\* C22: validate_configuration() of the Desktop-Notes exporter returns true
\* only if a Notes process is running.
C22_ValidateOnlyIfNotesRuns ==
    (an.op = "validate_configuration" /\ an.ret = "true") => anArgs.notes_running

\* The number of backslashes in a row that end right before position i.
RECURSIVE BackslashesBefore(_, _)
BackslashesBefore(s, i) ==
    IF i > 1 /\ s[i - 1] = BSL THEN 1 + BackslashesBefore(s, i - 1) ELSE 0

\* Every double quote has an odd number of backslashes right before it.
QuotesEscaped(s) ==
    \A i \in DOMAIN s : s[i] = QUOTE => BackslashesBefore(s, i) % 2 = 1

\* C26: in the AppleScript command, every double quote of the escaped title,
\* body and folder name is preceded by an odd number of backslashes in a
\* row, whatever the text, backslashes included.
C26_QuotesCannotEndLiteral ==
    ScriptBuilt =>
        /\ QuotesEscaped(txOut.script.name)
        /\ QuotesEscaped(txOut.script.body)
        /\ QuotesEscaped(txOut.script.folder)

\* ----------------------------------------------------- C23, C24, C25, C27
\* C23: in a document exported with metadata, the body is not immediately
\* followed by the metadata block: something visible separates them.
C23_BodySeparatedFromMetadata ==
    \A k \in DOMAIN drive.docs :
        LET text == drive.docs[k].text
        IN  \A i \in DOMAIN text :
                (text[i] = "BODY" /\ i < Len(text)) => text[i + 1] # "META"

\* C27: when export() returned false, the drive holds no document created by
\* the call.
C27_FailedExportLeavesNoDocument ==
    (gl.op = "export" /\ ~gl.ret) => gl.doc \notin DOMAIN drive.docs

SessionLog == gh.log

\* Every call from the k-th on is an export().
ExportsFrom(k) == \A i \in k..Len(SessionLog) : SessionLog[i].op = "export"

\* The calls that executed _authenticate.
Authenticated == {i \in DOMAIN SessionLog : SessionLog[i].authed}

\* C24: after a successful validate_configuration() followed by export()
\* calls only, _authenticate was executed exactly once; in a session of
\* export() calls only, the first one executes it, and once the service
\* handles are set no later one does.
C24_SessionEstablishedOnce ==
    /\ (/\ Len(SessionLog) >= 1
        /\ SessionLog[1].op = "validate_configuration"
        /\ SessionLog[1].ret
        /\ ExportsFrom(2))
           => Authenticated = {1}
    /\ (Len(SessionLog) >= 1 /\ ExportsFrom(1))
           => /\ 1 \in Authenticated
              /\ \A i, j \in DOMAIN SessionLog :
                     (i < j /\ SessionLog[i].ready) => j \notin Authenticated

\* A successful validation was followed by a successful export().
C24_Witness ==
    /\ Len(SessionLog) = 2
    /\ SessionLog[1].op = "validate_configuration"
    /\ SessionLog[1].ret
    /\ SessionLog[2].op = "export"
    /\ SessionLog[2].ret

\* The calls that executed _find_or_create_folder and got a folder.
Found == {i \in DOMAIN SessionLog : SessionLog[i].looked /\ SessionLog[i].folder # 0}

\* C25: _find_or_create_folder creates nothing when the drive has a folder of
\* the name, over any number of calls it creates at most one folder, every
\* call that returns a folder returns the same one, a folder of the drive,
\* and a call whose API request failed returns None.
C25_FindOrCreate ==
    /\ gh.folders0 # {} => drive.folders = gh.folders0
    /\ gh.folders0 \subseteq drive.folders
    /\ Cardinality(drive.folders \ gh.folders0) <= 1
    /\ \A i \in Found : SessionLog[i].folder \in drive.folders
    /\ \A i, j \in Found : SessionLog[i].folder = SessionLog[j].folder
    /\ (gl.op = "_find_or_create_folder" /\ gl.caught) => ~gl.ret

\* Two calls in a row on a drive without the folder: both returned one.
C25_Witness ==
    /\ gh.folders0 = {}
    /\ Len(SessionLog) = 2
    /\ Found = {1, 2}
    /\ SessionLog[1].op = "_find_or_create_folder"
    /\ SessionLog[2].op = "_find_or_create_folder"

\* -------------------------------------------------------------------- C29
\* The lines of a text that are the level-1 heading of a title.
HeadingsOf(text, t) ==
    LET T == TrimmedLines(text)
    IN  {i \in DOMAIN T : HashSpace(T[i]) /\ HeadingText(T[i]) = t}

\* C29: when get_title() took the title from a level-1 heading, the body of
\* the note exported has that heading line no more: it has one heading line
\* of the title less than the content.
C29_TitleHeadingRemoved ==
    (txOut.op = "process_file" /\ txOut.title # Stem) =>
        Cardinality(HeadingsOf(txOut.val, txOut.title))
            = Cardinality(HeadingsOf(txOut.content, txOut.title)) - 1

\* ----------------------------------------------------------- C21, C30, C28
MoveCalled == mvLast.op = "move_file"

\* The mirrored path of the file moved.
MirroredPath == clean_dir \o mvLast.path

\* The file of the call is at the mirrored path with its content, no more at
\* its source path, and the directories above the mirrored path exist.
MovedToMirror ==
    /\ IsUnder(mvLast.path)
    /\ FileAt(mvLast.before, mvLast.path) # {}
    /\ FileAt(fs, mvLast.path) = {}
    /\ FileAt(fs, MirroredPath) =
           {[path |-> MirroredPath, content |-> x.content] :
                x \in FileAt(mvLast.before, mvLast.path)}
    /\ \A n \in 1..(Len(MirroredPath) - 1) : SubSeq(MirroredPath, 1, n) \in fs.dirs

\* C21 as stated: move_file() returns true with the file moved to the
\* mirrored path, or false with the file system as it was before the call.
C21_MovedOrUnchanged ==
    MoveCalled => IF mvLast.ret THEN MovedToMirror ELSE fs = mvLast.before

\* C21: move_file() returns true with the file moved to the mirrored path,
\* or false with every file but one at the mirrored path as it was before the
\* call, the source file included, and no directory removed; the file system
\* is as it was when the source does not exist or is outside the source root.
C21_MovedOrSourceKept ==
    MoveCalled =>
        IF mvLast.ret THEN MovedToMirror
        ELSE /\ FileAt(fs, mvLast.path) = FileAt(mvLast.before, mvLast.path)
             /\ {x \in fs.files : x.path # MirroredPath}
                    = {x \in mvLast.before.files : x.path # MirroredPath}
             /\ mvLast.before.dirs \subseteq fs.dirs
             /\ (~Exists(mvLast.before, mvLast.path) \/ ~IsUnder(mvLast.path))
                    => fs = mvLast.before

\* The move of sub/b.md failed after the directory clean/sub was made.
C21_Witness ==
    /\ MoveCalled
    /\ mvLast.path = <<"sub", "b.md">>
    /\ ~mvLast.ret
    /\ FileAt(fs, mvLast.path) # {}
    /\ <<"clean", "sub">> \in fs.dirs \ mvLast.before.dirs

\* C30: when the mirrored path holds a file already, move_file() returns
\* false and both that file and the source file are as they were.
C30_ArchivedFileNotOverwritten ==
    (/\ MoveCalled
     /\ FileAt(mvLast.before, mvLast.path) # {}
     /\ FileAt(mvLast.before, MirroredPath) # {})
        => /\ ~mvLast.ret
           /\ FileAt(fs, MirroredPath) = FileAt(mvLast.before, MirroredPath)
           /\ FileAt(fs, mvLast.path) = FileAt(mvLast.before, mvLast.path)

\* C28: over any number of runs on one source directory, no document is
\* exported again after a run archived it, and none is exported twice.
C28_ArchivedNotExportedAgain ==
    /\ rr.again = {}
    /\ \A d \in DOMAIN rr.exports : rr.exports[d] <= 1

====
